---- MODULE Spec2Model ----
(***************************************************************************)
(* Model of src/app.py, the Streamlit RRG dashboard script.                *)
(*                                                                         *)
(* Floating-point values are modelled as decimal fixed-point numbers with  *)
(* three fractional digits: the integer x stands for x / Scale.  The two   *)
(* IEEE special values the script can produce, NaN and +inf, are two       *)
(* integers set apart.                                                     *)
(***************************************************************************)
EXTENDS Integers, Sequences, FiniteSets, TLC

VARIABLES
    pc,              \* position of the script run
    errline,         \* source line of the uncaught exception, 0 if none
    preset,          \* names bound in the module namespace before line 1
    names,           \* names bound in the module namespace
    tail_length,     \* src line 192
    rrg_timeframe,   \* src line 174
    scen,            \* the market history the price provider serves
    ndays,           \* number of calendar days of that history
    anomalies,       \* number of failed or gapped fetches so far in the run
    i,               \* loop counter of the loop the run is in
    benchmark_df,    \* src line 126, 142
    bench_df,        \* src line 214
    prices,          \* src line 211
    rs_ratio,        \* src line 248
    rs_momentum,     \* src line 249
    daily_prices,    \* src line 254
    latest_data,     \* src line 263
    ranking_df,      \* src line 285, 295
    quadrant_counts, \* src line 9, 297
    tails,           \* number of points plotted per sector, src lines 322-331
    fetched,         \* what the provider returned for each column requested
    evaluated,       \* sectors for which daily_entry_signal was called
    q_in, q_out,     \* argument and result of a get_quadrant call
    s_in, s_out      \* argument and result of a daily_entry_signal call

runvars == <<pc, errline, preset, names, tail_length, rrg_timeframe, scen, ndays, anomalies, i, benchmark_df,
             bench_df, prices, rs_ratio, rs_momentum, daily_prices,
             latest_data, ranking_df, quadrant_counts, tails, fetched,
             evaluated>>
fnvars == <<q_in, q_out, s_in, s_out>>
vars == <<runvars, fnvars>>

----------------------------------------------------------------------------
(* Numbers *)

Scale == 10 ^ 3

\* NaN and +inf are encoded as integers outside the range of the values
NaN == 0 - 2^30
Inf == 2^30
IsNaN(x) == x = NaN
IsInf(x) == x = Inf
IsNum(x) == x # NaN /\ x # Inf
FromInt(n) == n * Scale

\* Python's x >= y, x < y, x > y on floats: every comparison with NaN is False.
FGe(x, y) == ~IsNaN(x) /\ ~IsNaN(y) /\ x >= y
FLt(x, y) == ~IsNaN(x) /\ ~IsNaN(y) /\ x < y
FGt(x, y) == FLt(y, x)

\* x / y of two non-negative floats; a zero divisor gives inf, or NaN for 0/0.
FDiv(x, y) ==
    CASE IsNaN(x) \/ IsNaN(y) -> NaN
      [] IsInf(x) /\ IsInf(y) -> NaN
      [] IsInf(x) -> Inf
      [] IsInf(y) -> 0
      [] y = 0 /\ x = 0 -> NaN
      [] y = 0 -> Inf
      [] OTHER -> (x \div y) * Scale + ((x % y) * Scale) \div y

\* n * x for an integer n > 0
FMulInt(n, x) == IF IsNum(x) THEN n * x ELSE x

FAdd(x, y) ==
    CASE IsNaN(x) \/ IsNaN(y) -> NaN
      [] IsInf(x) \/ IsInf(y) -> Inf
      [] OTHER -> x + y

\* x - y for finite x
FSub(x, y) ==
    CASE IsNaN(x) \/ IsNaN(y) -> NaN
      [] IsInf(y) -> NaN
      [] OTHER -> x - y

\* round(x, 2): to two decimals, ties to even
Round2(x) ==
    IF ~IsNum(x) THEN x
    ELSE LET f == x \div 10
             r == x % 10
             up == r > 5 \/ (r = 5 /\ f % 2 = 1)
         IN  10 * (IF up THEN f + 1 ELSE f)

----------------------------------------------------------------------------
(* get_quadrant, src lines 19-27 *)

Quadrants == {"Leading", "Improving", "Weakening", "Lagging"}

hundred == FromInt(100)

get_quadrant_swapped(rs_r, rs_m) ==
    IF FGe(rs_r, hundred) /\ FGe(rs_m, hundred) THEN "Leading"
    ELSE IF FGe(rs_r, hundred) /\ FLt(rs_m, hundred) THEN "Improving"
    ELSE IF FLt(rs_r, hundred) /\ FLt(rs_m, hundred) THEN "Lagging"
    ELSE "Weakening"

get_quadrant(rs_r, rs_m) ==
    IF FGe(rs_r, hundred) /\ FGe(rs_m, hundred) THEN "Leading"
    ELSE IF FGe(rs_r, hundred) /\ FLt(rs_m, hundred) THEN "Weakening"
    ELSE IF FLt(rs_r, hundred) /\ FLt(rs_m, hundred) THEN "Lagging"
    ELSE "Improving"

----------------------------------------------------------------------------
(* pandas Series operations used by the script; a Series is a sequence *)

RECURSIVE SumV(_, _, _)
\* sum of the fixed-point values s[a..b]
SumV(s, a, b) == IF a > b THEN 0 ELSE s[b] + SumV(s, a, b - 1)

\* Series.rolling(w).mean() with min_periods one short of the window
RollingMeanShortWarmup(s, w) ==
    [t \in 1..Len(s) |->
        IF t < w - 1 THEN NaN
        ELSE LET a == IF t - w + 1 < 1 THEN 1 ELSE t - w + 1 IN
             IF \E j \in a..t : ~IsNum(s[j]) THEN NaN
             ELSE SumV(s, a, t) \div (t - a + 1)]

\* Series.rolling(w).mean(): undefined until w observations are in the window,
\* and undefined when the window holds a NaN or an inf
RollingMean(s, w) ==
    [t \in 1..Len(s) |->
        IF t < w THEN NaN
        ELSE IF \E j \in (t - w + 1)..t : ~IsNum(s[j]) THEN NaN
        ELSE SumV(s, t - w + 1, t) \div w]

\* Series.diff()
Diff(s) == [t \in 1..Len(s) |-> IF t = 1 THEN NaN ELSE FSub(s[t], s[t - 1])]

\* Series.clip(lower=0) and -Series.clip(upper=0)
ClipLower0(s) == [t \in 1..Len(s) |->
                    IF IsNum(s[t]) /\ s[t] < 0 THEN 0 ELSE s[t]]
NegClipUpper0(s) == [t \in 1..Len(s) |->
                    IF IsNum(s[t]) THEN (IF s[t] > 0 THEN 0 ELSE 0 - s[t])
                    ELSE s[t]]

\* a / b and 100 * a / b element by element
SDiv(a, b) == [t \in 1..Len(a) |-> FDiv(a[t], b[t])]
SPct(a, b) == [t \in 1..Len(a) |-> FDiv(FMulInt(100, a[t]), b[t])]

----------------------------------------------------------------------------
(* daily_entry_signal, src lines 30-53.  df is a record                    *)
(* [hasClose, index, close]: whether the frame has a Close column, its     *)
(* timestamps and its Close values.                                        *)

SMA20(close) == RollingMean(close, 20)

\* an RSI whose division faults on a zero average loss instead of giving inf
RSI14ZeroLossNaN(close) ==
    LET delta == Diff(close)
        gain == ClipLower0(delta)
        loss == NegClipUpper0(delta)
        avg_gain == RollingMean(gain, 14)
        avg_loss == RollingMean(loss, 14)
        rs == [t \in 1..Len(close) |->
                 IF avg_loss[t] = 0 THEN NaN ELSE FDiv(avg_gain[t], avg_loss[t])]
    IN  [t \in 1..Len(close) |->
            FSub(hundred, FDiv(hundred, FAdd(FromInt(1), rs[t])))]

\* src lines 38-46
RSI14(close) ==
    LET delta == Diff(close)
        gain == ClipLower0(delta)
        loss == NegClipUpper0(delta)
        avg_gain == RollingMean(gain, 14)
        avg_loss == RollingMean(loss, 14)
        rs == SDiv(avg_gain, avg_loss)
    IN  [t \in 1..Len(close) |->
            FSub(hundred, FDiv(hundred, FAdd(FromInt(1), rs[t])))]

daily_entry_signal_guard20(df) ==
    IF ~df.hasClose THEN "KeyError"
    ELSE LET close == df.close
             n == Len(close)
         IN  IF n < 20 THEN "NO"
             ELSE LET price_now == close[n]
                      sma_now == SMA20(close)[n]
                      rsi_now == RSI14(close)[n]
                      rsi_prev == RSI14(close)[n - 1]
                  IN  IF FGt(price_now, sma_now) /\ FGt(rsi_now, FromInt(55))
                         /\ FGt(rsi_now, rsi_prev)
                      THEN "YES" ELSE "NO"

daily_entry_signal(df) ==
    IF ~df.hasClose THEN "KeyError"
    ELSE LET close == df.close
             n == Len(close)
         IN  IF n < 21 THEN "NO"
             ELSE LET price_now == close[n]
                      sma_now == SMA20(close)[n]
                      rsi_now == RSI14(close)[n]
                      rsi_prev == RSI14(close)[n - 1]
                  IN  IF FGt(price_now, sma_now) /\ FGt(rsi_now, FromInt(55))
                         /\ FGt(rsi_now, rsi_prev)
                      THEN "YES" ELSE "NO"

----------------------------------------------------------------------------
(* The two helper functions applied to arguments drawn from bounded sets *)

QSpread == 3     \* arguments range over 100 +- QSpread thousandths
MaxLen == 23     \* longest close series handed to daily_entry_signal

RunIdle ==
    /\ pc = "idle" /\ errline = 0 /\ preset = {} /\ names = {}
    /\ tail_length = 0 /\ rrg_timeframe = "none"
    /\ scen = 0 /\ ndays = 0 /\ anomalies = 0 /\ i = 0
    /\ benchmark_df = <<>> /\ bench_df = <<>> /\ prices = <<>>
    /\ rs_ratio = <<>> /\ rs_momentum = <<>> /\ daily_prices = <<>>
    /\ latest_data = <<>> /\ ranking_df = <<>> /\ quadrant_counts = <<>>
    /\ tails = <<>> /\ fetched = <<>> /\ evaluated = {}

QVals == {100 * Scale + d : d \in (0 - QSpread)..QSpread} \cup {NaN}

InitQuadrant ==
    /\ RunIdle
    /\ q_in \in [r : QVals, m : QVals]
    /\ q_out = "none"
    /\ s_in = "none" /\ s_out = "none"

CallQuadrant ==
    /\ q_out = "none"
    /\ q_out' = get_quadrant(q_in.r, q_in.m)
    /\ UNCHANGED <<runvars, q_in, s_in, s_out>>

NextQuadrant == CallQuadrant

SpecQuadrant == InitQuadrant /\ [][NextQuadrant]_vars

\* a close series of n points: a line of slope step from 100, shifted by
\* jump from point j on
Closes(n, step, j, jump) ==
    [t \in 1..n |-> FromInt(100 + step * t + (IF t >= j THEN jump ELSE 0))]

SignalInputs ==
    {[hasClose |-> TRUE, index |-> [t \in 1..n |-> t],
      close |-> Closes(n, step, j, jump)] :
        n \in 0..MaxLen, step \in {-1, 0, 1}, j \in 2..MaxLen, jump \in {-3, 0, 3}}

InitSignal ==
    /\ RunIdle
    /\ s_in \in SignalInputs
    /\ s_out = "none"
    /\ q_in = "none" /\ q_out = "none"

CallSignal ==
    /\ s_out = "none"
    /\ s_out' = daily_entry_signal(s_in)
    /\ UNCHANGED <<runvars, s_in, q_in, q_out>>

NextSignal == CallSignal

SpecSignal == InitSignal /\ [][NextSignal]_vars

----------------------------------------------------------------------------
(* Properties of the helper functions *)

\* C1: for every pair of defined numbers get_quadrant returns one of the four
\* quadrants, and 100 itself lies on the >= 100 side of both axes.
C1_QuadrantTotal ==
    (q_out # "none" /\ IsNum(q_in.r) /\ IsNum(q_in.m)) =>
        LET r == q_in.r
            m == q_in.m
            c == 100 * Scale
        IN  /\ q_out \in Quadrants
            /\ (r >= c /\ m >= c) => q_out = "Leading"
            /\ (r >= c /\ m < c) => q_out = "Weakening"
            /\ (r < c /\ m < c) => q_out = "Lagging"
            /\ (r < c /\ m >= c) => q_out = "Improving"

C1_Witness ==
    /\ q_out = "Weakening"
    /\ q_in.r = 100 * Scale
    /\ q_in.m = 100 * Scale - 1

CloseOf(df) == df.close
Last(s) == s[Len(s)]

\* 20 * latest close > sum of the latest 20 closes
AboveSMA20(close) ==
    LET n == Len(close) IN 20 * close[n] > SumV(close, n - 19, n)

\* C6: "YES" exactly when there are at least 21 observations and the latest
\* close is above its 20-period average, the latest RSI is above 55 and above
\* the RSI before it; otherwise "NO".
C6_SignalExact ==
    (s_out # "none" /\ s_in.hasClose) =>
        LET close == CloseOf(s_in)
            n == Len(close)
        IN  /\ s_out \in {"YES", "NO"}
            /\ s_out = "YES" <=>
                 /\ n >= 21
                 /\ AboveSMA20(close)
                 /\ FGt(RSI14(close)[n], FromInt(55))
                 /\ FGt(RSI14(close)[n], RSI14(close)[n - 1])

C6_Witness ==
    /\ s_out = "YES"
    /\ Len(CloseOf(s_in)) = 21

StrictlyIncreasing(close) ==
    \A t \in 2..Len(close) : close[t] > close[t - 1]

\* C7 as stated: a strictly increasing 20-point series has RSI 100 at its
\* latest point and the signal is "YES".
C7_RisingYes ==
    (s_out # "none" /\ Len(CloseOf(s_in)) = 20 /\ StrictlyIncreasing(CloseOf(s_in))) =>
        /\ RSI14(CloseOf(s_in))[20] = hundred
        /\ s_out = "YES"

\* C7 amended: a strictly increasing series of 20 or more points has RSI 100
\* at its latest point and the signal is "NO".
C7_RisingNo ==
    (s_out # "none" /\ Len(CloseOf(s_in)) >= 20 /\ StrictlyIncreasing(CloseOf(s_in))) =>
        /\ Last(RSI14(CloseOf(s_in))) = hundred
        /\ s_out = "NO"

C7_Witness ==
    /\ s_out = "NO"
    /\ Len(CloseOf(s_in)) = 20
    /\ StrictlyIncreasing(CloseOf(s_in))
    /\ RSI14(CloseOf(s_in))[20] = hundred

----------------------------------------------------------------------------
(* Script constants *)

\* src lines 131-135, the symbols
benchmark_candidates == <<"NIFTYBEES.NS", "^NSEI", "BANKBEES.NS">>

\* src lines 154-162, the keys in dictionary order
sectors == <<"Bank", "IT", "FMCG", "Auto", "Pharma", "Metal", "Energy">>

SectorSet == {sectors[k] : k \in 1..Len(sectors)}

\* src lines 287-292
quadrant_order(q) ==
    CASE q = "Leading" -> 0 [] q = "Improving" -> 1
      [] q = "Weakening" -> 2 [] q = "Lagging" -> 3

----------------------------------------------------------------------------
(* The price provider (yfinance).  Timestamps are calendar day numbers,    *)
(* day 1 a Monday and the first of January of a leap year.  The provider   *)
(* serves one market history per run; a fetch returns it in full, returns  *)
(* it with some rows missing, or fails.                                    *)

MaxScen == 1        \* market histories 0..MaxScen
ShortDays == 12     \* calendar days of a short history
LongDays == 40      \* calendar days of a long history
MaxAnomalies == 1   \* fetches per run that fail or come back with rows missing

Dow(d) == (d - 1) % 7                       \* 0 Monday .. 6 Sunday
TradingDays(n) == {d \in 1..n : Dow(d) < 5}

RECURSIVE SortedSeq(_, _, _)
\* the elements of S within lo..hi as a sequence in increasing order
SortedSeq(S, lo, hi) ==
    IF lo > hi THEN <<>>
    ELSE LET rest == SortedSeq(S, lo, hi - 1) IN
         IF hi \in S THEN Append(rest, hi) ELSE rest

SectorIdx(name) == CHOOSE k \in 1..Len(sectors) : sectors[k] = name

BenchPrice(sc, d) == IF sc % 2 = 0 THEN 100 ELSE 100 + (d % 5)

\* closing price of a column on day d in market history sc
Price(sc, name, d) ==
    IF name = "Benchmark" THEN BenchPrice(sc, d)
    ELSE LET shape == (SectorIdx(name) + sc) % 6 IN
         CASE shape = 0 -> 2 * BenchPrice(sc, d)
           [] shape = 1 -> 100 + 2 * d
           [] shape = 2 -> 200 - 2 * d
           [] shape = 3 -> 100 + (d * d) \div 10
           [] shape = 4 -> 100 + ((d - 36) * (d - 36)) \div 10
           [] shape = 5 -> 0

\* rows a gapped response lacks
GapDays(name) ==
    IF name = "Benchmark" THEN 8..12 ELSE {SectorIdx(name) + 1}

\* a DataFrame as the provider returns it
Frame(hasClose, days, sc, n, name) ==
    LET idx == SortedSeq(days, 1, n) IN
    [hasClose |-> hasClose, index |-> idx,
     close |-> [t \in 1..Len(idx) |-> FromInt(Price(sc, name, idx[t]))]]

EmptyFrame == [hasClose |-> TRUE, index |-> <<>>, close |-> <<>>]

\* yf.download(symbol, period=...): kind is the outcome of the request
Download(kind, sc, n, name) ==
    CASE kind = "ok" -> Frame(TRUE, TradingDays(n), sc, n, name)
      [] kind = "gap" -> Frame(TRUE, TradingDays(n) \ GapDays(name), sc, n, name)
      [] kind = "nanlast" ->
            LET f == Frame(TRUE, TradingDays(n), sc, n, name) IN
            [f EXCEPT !.index = Append(f.index, n + 1), !.close = Append(f.close, NaN)]
      [] kind = "empty" -> EmptyFrame
      [] kind = "noclose" -> Frame(FALSE, TradingDays(n), sc, n, name)

\* df.empty
IsEmpty(df) == Len(df.index) = 0

\* not df.empty and "Close" in df.columns
Usable(df) == ~IsEmpty(df) /\ df.hasClose

----------------------------------------------------------------------------
(* pandas DataFrame operations used on the price table.  A table is a      *)
(* record [index, cols, data]: the timestamps, the column names in column  *)
(* order and the values of each column.                                    *)

EmptyTable == [index |-> <<>>, cols |-> <<>>, data |-> <<>>]

ColSet(tb) == {tb.cols[k] : k \in 1..Len(tb.cols)}

RECURSIVE Reindex(_, _, _, _, _)
\* df["Close"] aligned to the timestamps idx: the value of df at each timestamp
\* of idx, NaN where df has no such row (both indexes are increasing)
Reindex(idx, df, t, k, acc) ==
    IF t > Len(idx) THEN acc
    ELSE IF k > Len(df.index) THEN Reindex(idx, df, t + 1, k, Append(acc, NaN))
    ELSE IF df.index[k] = idx[t]
         THEN Reindex(idx, df, t + 1, k + 1, Append(acc, df.close[k]))
    ELSE IF df.index[k] < idx[t] THEN Reindex(idx, df, t, k + 1, acc)
    ELSE Reindex(idx, df, t + 1, k, Append(acc, NaN))

\* prices[name] = df["Close"]: the first column brings its index, a later one
\* is aligned to the index of the table
SetColumn(tb, name, df) ==
    LET idx == IF Len(tb.cols) = 0 THEN df.index ELSE tb.index
        col == Reindex(idx, df, 1, 1, <<>>)
    IN  [index |-> idx,
         cols |-> Append(tb.cols, name),
         data |-> [c \in ColSet(tb) \cup {name} |->
                      IF c = name THEN col ELSE tb.data[c]]]

\* the rows at the positions keep, in order
TakeRows(tb, keep) ==
    [index |-> [k \in 1..Len(keep) |-> tb.index[keep[k]]],
     cols |-> tb.cols,
     data |-> [c \in ColSet(tb) |-> [k \in 1..Len(keep) |-> tb.data[c][keep[k]]]]]

\* dropna(how="all"): drops a row only when every column is missing
DropNaAll(tb) ==
    TakeRows(tb, SortedSeq({t \in 1..Len(tb.index) :
                              \E c \in ColSet(tb) : ~IsNaN(tb.data[c][t])},
                           1, Len(tb.index)))

\* prices.dropna(inplace=True): drops each row with a missing value
DropNa(tb) ==
    TakeRows(tb, SortedSeq({t \in 1..Len(tb.index) :
                              \A c \in ColSet(tb) : ~IsNaN(tb.data[c][t])},
                           1, Len(tb.index)))

\* df.dropna(inplace=True) on a downloaded frame
DropNaFrame(df) ==
    LET keep == SortedSeq({t \in 1..Len(df.index) : ~IsNaN(df.close[t])},
                          1, Len(df.index)) IN
    [hasClose |-> df.hasClose,
     index |-> [k \in 1..Len(keep) |-> df.index[keep[k]]],
     close |-> [k \in 1..Len(keep) |-> df.close[keep[k]]]]

MonthEnds == {31, 60, 91, 121}

\* the label of the bin of day d: the Friday that ends its week ("W-FRI") or
\* the last day of its month ("M")
BinLabel(rule, d) ==
    IF rule = "W-FRI" THEN d + ((11 - Dow(d)) % 7)
    ELSE CHOOSE e \in MonthEnds : e >= d /\ \A f \in MonthEnds : f >= d => e <= f

\* prices.resample(rule).last(): one row per bin from the first to the last
\* bin, holding for each column the last value present in the bin
ResampleLast(tb, rule) ==
    IF Len(tb.index) = 0 THEN tb
    ELSE LET n == Len(tb.index)
             lo == BinLabel(rule, tb.index[1])
             hi == BinLabel(rule, tb.index[n])
             labels == SortedSeq({e \in lo..hi : BinLabel(rule, e) = e}, lo, hi)
             LastIn(c, e) ==
                LET ps == {t \in 1..n : BinLabel(rule, tb.index[t]) = e
                                         /\ ~IsNaN(tb.data[c][t])}
                IN  IF ps = {} THEN NaN
                    ELSE tb.data[c][CHOOSE t \in ps : \A u \in ps : u <= t]
         IN  [index |-> labels,
              cols |-> tb.cols,
              data |-> [c \in ColSet(tb) |->
                          [k \in 1..Len(labels) |-> LastIn(c, labels[k])]]]

----------------------------------------------------------------------------
(* RRG calculations, src lines 247-249 *)

\* rs = prices[sectors.keys()].div(prices["Benchmark"], axis=0)
Rs(tb) == [s \in SectorSet |-> SDiv(tb.data[s], tb.data["Benchmark"])]

\* rs_ratio = 100 * rs / rs.rolling(14).mean()
RsRatio(rs) == [s \in SectorSet |-> SPct(rs[s], RollingMean(rs[s], 14))]

\* rs_momentum = 100 * rs_ratio / rs_ratio.rolling(14).mean()
RsMomentum(ratio) == [s \in SectorSet |-> SPct(ratio[s], RollingMean(ratio[s], 14))]

----------------------------------------------------------------------------
(* Ranking table, src lines 285-301 *)

\* x sorts before y in a descending column, missing values last
Desc(x, y) == (IsNaN(y) /\ ~IsNaN(x)) \/ FGt(x, y)
Asc(x, y) == (IsNaN(y) /\ ~IsNaN(x)) \/ FLt(x, y)

SortRowsAscending(rows) ==
    LET n == Len(rows)
        Before(a, b) ==
            LET oa == quadrant_order(rows[a].Quadrant)
                ob == quadrant_order(rows[b].Quadrant)
            IN  \/ oa < ob
                \/ /\ oa = ob
                   /\ \/ Asc(rows[a].RS_Ratio, rows[b].RS_Ratio)
                      \/ ~Asc(rows[b].RS_Ratio, rows[a].RS_Ratio) /\ a < b
    IN  [k \in 1..n |->
            rows[CHOOSE a \in 1..n :
                    Cardinality({b \in 1..n : Before(b, a)}) = k - 1]]

\* sort_values(["Order", "RS-Ratio"], ascending=[True, False]): a stable sort
SortRows(rows) ==
    LET n == Len(rows)
        Before(a, b) ==
            LET oa == quadrant_order(rows[a].Quadrant)
                ob == quadrant_order(rows[b].Quadrant)
            IN  \/ oa < ob
                \/ /\ oa = ob
                   /\ \/ Desc(rows[a].RS_Ratio, rows[b].RS_Ratio)
                      \/ ~Desc(rows[b].RS_Ratio, rows[a].RS_Ratio) /\ a < b
    IN  [k \in 1..n |->
            rows[CHOOSE a \in 1..n :
                    Cardinality({b \in 1..n : Before(b, a)}) = k - 1]]

\* value_counts().reindex([...], fill_value=0)
CountQuadrants(rows) ==
    [q \in Quadrants |-> Cardinality({k \in 1..Len(rows) : rows[k].Quadrant = q})]

----------------------------------------------------------------------------
(* The script run, top to bottom.                                          *)
(*                                                                         *)
(* The script reads the names period (line 138) and benchmark (line 214)   *)
(* before any statement binds them.  preset is the set of those names the  *)
(* caller has bound in the namespace the file is executed in: it is empty  *)
(* under `streamlit run`, where the run ends at line 138, and the runs     *)
(* that start with the names bound are the ones that execute the           *)
(* statements after it.  The value bound to benchmark is a symbol the      *)
(* provider serves like the benchmark candidates.                          *)

Extend(f, key, val) == [x \in DOMAIN f \cup {key} |-> IF x = key THEN val ELSE f[x]]

\* what the run got for a column: whether the frame was usable, and its rows
Record(df) == [usable |-> Usable(df),
               days |-> IF Usable(df) THEN {df.index[k] : k \in 1..Len(df.index)}
                        ELSE {}]

\* outcomes open to a fetch of the run
Kinds(extra) == {"ok"} \cup (IF anomalies < MaxAnomalies THEN extra ELSE {})
Cost(kind) == IF kind \in {"ok", "nanlast"} THEN 0 ELSE 1

Init ==
    /\ pc = "start" /\ errline = 0
    /\ preset \in SUBSET {"period", "benchmark"}
    /\ names = preset
    /\ tail_length = 0 /\ rrg_timeframe = "none"
    /\ scen \in 0..MaxScen
    /\ ndays \in {ShortDays, LongDays}
    /\ anomalies = 0 /\ i = 0
    /\ benchmark_df = <<>> /\ bench_df = <<>> /\ prices = <<>>
    /\ rs_ratio = <<>> /\ rs_momentum = <<>> /\ daily_prices = <<>>
    /\ latest_data = <<>> /\ ranking_df = <<>> /\ quadrant_counts = <<>>
    /\ tails = <<>> /\ fetched = <<>> /\ evaluated = {}
    /\ q_in = "none" /\ q_out = "none" /\ s_in = "none" /\ s_out = "none"

\* src lines 1-135
Header ==
    /\ pc = "start"
    /\ quadrant_counts' = [q \in Quadrants |-> 0]
    /\ benchmark_df' = <<>>
    /\ i' = 1
    /\ pc' = "bench_loop"
    /\ UNCHANGED <<errline, preset, names, tail_length, rrg_timeframe, scen,
                   ndays, anomalies, bench_df, prices, rs_ratio, rs_momentum,
                   daily_prices, latest_data, ranking_df, tails, fetched,
                   evaluated, fnvars>>

\* src lines 137-143, one iteration; the script keeps the frame of the first
\* candidate that answers but never reads its values
BenchCandidate ==
    /\ pc = "bench_loop"
    /\ \/ /\ "period" \notin names
          /\ pc' = "NameError" /\ errline' = 138
          /\ UNCHANGED <<benchmark_df, i>>
       \/ /\ "period" \in names
          /\ \E kind \in {"ok", "empty", "noclose"} :
               LET df == Download(kind, scen, ndays, "Benchmark") IN
               IF Usable(df)
               THEN benchmark_df' = <<df>> /\ pc' = "bench_check" /\ i' = i
               ELSE /\ benchmark_df' = benchmark_df
                    /\ IF i = Len(benchmark_candidates)
                       THEN pc' = "bench_check" /\ i' = i
                       ELSE pc' = pc /\ i' = i + 1
          /\ errline' = errline
    /\ UNCHANGED <<preset, names, tail_length, rrg_timeframe, scen, ndays,
                   anomalies, bench_df, prices, rs_ratio, rs_momentum,
                   daily_prices, latest_data, ranking_df, quadrant_counts,
                   tails, fetched, evaluated, fnvars>>

BenchCheckNoStop ==
    /\ pc = "bench_check"
    /\ pc' = "sidebar"
    /\ UNCHANGED <<errline, preset, names, tail_length, rrg_timeframe, scen,
                   ndays, anomalies, i, benchmark_df, bench_df, prices,
                   rs_ratio, rs_momentum, daily_prices, latest_data,
                   ranking_df, quadrant_counts, tails, fetched, evaluated,
                   fnvars>>

\* src lines 145-151
BenchCheck ==
    /\ pc = "bench_check"
    /\ pc' = IF benchmark_df = <<>> THEN "stopped" ELSE "sidebar"
    /\ UNCHANGED <<errline, preset, names, tail_length, rrg_timeframe, scen,
                   ndays, anomalies, i, benchmark_df, bench_df, prices,
                   rs_ratio, rs_momentum, daily_prices, latest_data,
                   ranking_df, quadrant_counts, tails, fetched, evaluated,
                   fnvars>>

\* src lines 154-206
Sidebar ==
    /\ pc = "sidebar"
    /\ \E tf \in {"Daily", "Weekly", "Monthly"}, mode \in {"Swing", "Positional"} :
          /\ rrg_timeframe' = tf
          /\ tail_length' = IF mode = "Swing" THEN 5 ELSE 10
    /\ names' = names \cup {"period"}
    /\ pc' = "bench_download"
    /\ UNCHANGED <<errline, preset, scen, ndays, anomalies, i, benchmark_df,
                   bench_df, prices, rs_ratio, rs_momentum, daily_prices,
                   latest_data, ranking_df, quadrant_counts, tails, fetched,
                   evaluated, fnvars>>

\* src lines 211-220
BenchDownload ==
    /\ pc = "bench_download"
    /\ \/ /\ "benchmark" \notin names
          /\ pc' = "NameError" /\ errline' = 214
          /\ prices' = EmptyTable
          /\ UNCHANGED <<bench_df, fetched, anomalies, i>>
       \/ /\ "benchmark" \in names
          /\ \E kind \in Kinds({"gap"}) \cup {"empty", "noclose"} :
               LET df == Download(kind, scen, ndays, "Benchmark") IN
               /\ bench_df' = <<df>>
               /\ fetched' = Extend(fetched, "Benchmark", Record(df))
               /\ IF Usable(df)
                  THEN /\ prices' = SetColumn(EmptyTable, "Benchmark", df)
                       /\ anomalies' = anomalies + Cost(kind)
                       /\ pc' = "sector_loop" /\ i' = 1
                  ELSE /\ prices' = EmptyTable
                       /\ pc' = "stopped"
                       /\ UNCHANGED <<anomalies, i>>
          /\ errline' = errline
    /\ UNCHANGED <<preset, names, tail_length, rrg_timeframe, scen, ndays,
                   benchmark_df, rs_ratio, rs_momentum, daily_prices,
                   latest_data, ranking_df, quadrant_counts, tails, evaluated,
                   fnvars>>

\* src lines 223-229, one iteration
SectorDownload ==
    /\ pc = "sector_loop"
    /\ \E kind \in Kinds({"gap", "empty", "noclose"}) :
          LET df == Download(kind, scen, ndays, sectors[i]) IN
          /\ fetched' = Extend(fetched, sectors[i], Record(df))
          /\ prices' = IF Usable(df) THEN SetColumn(prices, sectors[i], df)
                       ELSE prices
          /\ anomalies' = anomalies + Cost(kind)
    /\ IF i = Len(sectors) THEN pc' = "cleanup" /\ i' = i
       ELSE pc' = pc /\ i' = i + 1
    /\ UNCHANGED <<errline, preset, names, tail_length, rrg_timeframe, scen,
                   ndays, benchmark_df, bench_df, rs_ratio, rs_momentum,
                   daily_prices, latest_data, ranking_df, quadrant_counts,
                   tails, evaluated, fnvars>>

\* src lines 231-232
Cleanup ==
    /\ pc = "cleanup"
    /\ prices' = DropNa(prices)
    /\ pc' = "timeframe"
    /\ UNCHANGED <<errline, preset, names, tail_length, rrg_timeframe, scen,
                   ndays, anomalies, i, benchmark_df, bench_df, rs_ratio,
                   rs_momentum, daily_prices, latest_data, ranking_df,
                   quadrant_counts, tails, fetched, evaluated, fnvars>>

\* src lines 237-242
ApplyTimeframe ==
    /\ pc = "timeframe"
    /\ prices' = DropNa(IF rrg_timeframe = "Weekly" THEN ResampleLast(prices, "W-FRI")
                        ELSE IF rrg_timeframe = "Monthly" THEN ResampleLast(prices, "M")
                        ELSE prices)
    /\ pc' = "rrg"
    /\ UNCHANGED <<errline, preset, names, tail_length, rrg_timeframe, scen,
                   ndays, anomalies, i, benchmark_df, bench_df, rs_ratio,
                   rs_momentum, daily_prices, latest_data, ranking_df,
                   quadrant_counts, tails, fetched, evaluated, fnvars>>

\* src lines 247-249
RRGCalculations ==
    /\ pc = "rrg"
    /\ IF SectorSet \subseteq ColSet(prices)
       THEN /\ rs_ratio' = RsRatio(Rs(prices))
            /\ rs_momentum' = RsMomentum(RsRatio(Rs(prices)))
            /\ pc' = "daily_loop" /\ i' = 1 /\ errline' = errline
       ELSE /\ pc' = "KeyError" /\ errline' = 247
            /\ UNCHANGED <<rs_ratio, rs_momentum, i>>
    /\ UNCHANGED <<preset, names, tail_length, rrg_timeframe, scen, ndays,
                   anomalies, benchmark_df, bench_df, prices, daily_prices,
                   latest_data, ranking_df, quadrant_counts, tails, fetched,
                   evaluated, fnvars>>

\* src lines 254-258, one iteration
DailyDownload ==
    /\ pc = "daily_loop"
    /\ \E kind \in Kinds({"empty", "noclose"}) \cup {"nanlast"} :
          LET df == DropNaFrame(Download(kind, scen, ndays, sectors[i])) IN
          /\ daily_prices' = Extend(daily_prices, sectors[i], df)
          /\ anomalies' = anomalies + Cost(kind)
    /\ IF i = Len(sectors) THEN pc' = "rank_loop" /\ i' = 1
       ELSE pc' = pc /\ i' = i + 1
    /\ UNCHANGED <<errline, preset, names, tail_length, rrg_timeframe, scen,
                   ndays, benchmark_df, bench_df, prices, rs_ratio,
                   rs_momentum, latest_data, ranking_df, quadrant_counts,
                   tails, fetched, evaluated, fnvars>>

\* src lines 263-283, one iteration
RankRow ==
    /\ pc = "rank_loop"
    /\ LET sector == sectors[i]
           n == Len(rs_ratio[sector])
       IN  IF n = 0
           THEN /\ pc' = "IndexError" /\ errline' = 266
                /\ UNCHANGED <<latest_data, evaluated, i>>
           ELSE LET r == rs_ratio[sector][n]
                    m == rs_momentum[sector][n]
                    q == get_quadrant(r, m)
                    called == rrg_timeframe = "Weekly" /\ q \in {"Leading", "Improving"}
                    daily_signal ==
                        IF called THEN daily_entry_signal(daily_prices[sector])
                        ELSE IF rrg_timeframe = "Weekly" THEN "-"
                        ELSE "N/A"
                IN  /\ evaluated' = IF called THEN evaluated \cup {sector} ELSE evaluated
                    /\ IF daily_signal = "KeyError"
                       THEN /\ pc' = "KeyError" /\ errline' = 31
                            /\ UNCHANGED <<latest_data, i>>
                       ELSE /\ latest_data' = Append(latest_data,
                                   [Sector |-> sector, RS_Ratio |-> Round2(r),
                                    RS_Momentum |-> Round2(m), Quadrant |-> q,
                                    Daily_Entry |-> daily_signal])
                            /\ errline' = errline
                            /\ IF i = Len(sectors) THEN pc' = "rank_sort" /\ i' = i
                               ELSE pc' = pc /\ i' = i + 1
    /\ UNCHANGED <<preset, names, tail_length, rrg_timeframe, scen, ndays,
                   anomalies, benchmark_df, bench_df, prices, rs_ratio,
                   rs_momentum, daily_prices, ranking_df, quadrant_counts,
                   tails, fetched, fnvars>>

\* src lines 285-301
RankSort ==
    /\ pc = "rank_sort"
    /\ ranking_df' = SortRows(latest_data)
    /\ quadrant_counts' = CountQuadrants(SortRows(latest_data))
    /\ pc' = "plot"
    /\ UNCHANGED <<errline, preset, names, tail_length, rrg_timeframe, scen,
                   ndays, anomalies, i, benchmark_df, bench_df, prices,
                   rs_ratio, rs_momentum, daily_prices, latest_data, tails,
                   fetched, evaluated, fnvars>>

\* src lines 306-369; the tail of a sector is rs_ratio[sector].iloc[-tail_length:]
PlotAndTable ==
    /\ pc = "plot"
    /\ tails' = [s \in SectorSet |->
                   IF Len(rs_ratio[s]) < tail_length THEN Len(rs_ratio[s])
                   ELSE tail_length]
    /\ pc' = "done"
    /\ UNCHANGED <<errline, preset, names, tail_length, rrg_timeframe, scen,
                   ndays, anomalies, i, benchmark_df, bench_df, prices,
                   rs_ratio, rs_momentum, daily_prices, latest_data,
                   ranking_df, quadrant_counts, fetched, evaluated, fnvars>>

Next ==
    \/ Header \/ BenchCandidate \/ BenchCheck \/ Sidebar \/ BenchDownload
    \/ SectorDownload \/ Cleanup \/ ApplyTimeframe \/ RRGCalculations
    \/ DailyDownload \/ RankRow \/ RankSort \/ PlotAndTable

Spec == Init /\ [][Next]_vars

----------------------------------------------------------------------------
(* Properties of the script run *)

Errors == {"NameError", "KeyError", "IndexError"}

RowsOf(rows, s) == {k \in 1..Len(rows) : rows[k].Sector = s}

\* C10: a run that starts with an empty namespace never reads an unbound name.
C10_NoUnboundRead == (preset = {}) => pc # "NameError"

\* the run holds a usable benchmark series from the candidate loop and from
\* the mandatory download
BenchmarkObtained ==
    /\ benchmark_df # <<>>
    /\ bench_df # <<>>
    /\ Usable(bench_df[1])

\* C4: without a benchmark series no sector is fetched and nothing is ranked,
\* counted or plotted; once every candidate has failed the run has stopped.
C4_NoBenchmarkNoOutput ==
    /\ ~BenchmarkObtained =>
          /\ DOMAIN fetched \cap SectorSet = {}
          /\ latest_data = <<>> /\ ranking_df = <<>> /\ DOMAIN tails = {}
          /\ pc # "start" => \A q \in Quadrants : quadrant_counts[q] = 0
    /\ benchmark_df = <<>> =>
          pc \in {"start", "bench_loop", "bench_check", "stopped", "NameError"}

C4_Witness ==
    /\ pc = "stopped"
    /\ benchmark_df = <<>>
    /\ i = Len(benchmark_candidates)
    /\ "period" \in names

\* C2: a sector whose fetch failed raises no error and is absent from the
\* price table, the ranking rows and the tails, and once the run is over the
\* other sectors are ranked.
C2_MissingSectorTolerated ==
    \A s \in SectorSet :
        (s \in DOMAIN fetched /\ ~fetched[s].usable) =>
            /\ pc \notin Errors
            /\ s \notin ColSet(prices)
            /\ RowsOf(latest_data, s) = {} /\ RowsOf(ranking_df, s) = {}
            /\ s \notin DOMAIN tails
            /\ pc = "done" =>
                 \A o \in SectorSet :
                    (o \in DOMAIN fetched /\ fetched[o].usable) => RowsOf(ranking_df, o) # {}

\* the latest RS-Ratio or RS-Momentum of sector s is missing
LatestUndefined(s) ==
    LET n == Len(rs_ratio[s]) IN
    n > 0 /\ (IsNaN(rs_ratio[s][n]) \/ IsNaN(rs_momentum[s][n]))

\* C3: a sector whose latest RS-Ratio or RS-Momentum is missing gets no row with
\* a quadrant label and no daily-entry evaluation.
C3_UndefinedNeverClassified ==
    \A s \in SectorSet :
        (s \in DOMAIN rs_ratio /\ LatestUndefined(s)) =>
            /\ \A k \in RowsOf(latest_data, s) : latest_data[k].Quadrant \notin Quadrants
            /\ s \notin evaluated

\* C5: the ranking table has exactly one row per sector of the metrics, in
\* quadrant priority order, and by RS-Ratio descending within a quadrant.
C5_RankingTotalSorted ==
    pc \in {"plot", "done"} =>
        LET n == Len(ranking_df) IN
        /\ \A s \in DOMAIN rs_ratio : Cardinality(RowsOf(ranking_df, s)) = 1
        /\ \A k \in 1..n : ranking_df[k].Sector \in DOMAIN rs_ratio
        /\ \A k \in 1..n, l \in 1..n :
              k < l =>
                /\ quadrant_order(ranking_df[k].Quadrant)
                      <= quadrant_order(ranking_df[l].Quadrant)
                /\ (/\ ranking_df[k].Quadrant = ranking_df[l].Quadrant
                    /\ IsNum(ranking_df[k].RS_Ratio)
                    /\ IsNum(ranking_df[l].RS_Ratio))
                      => ranking_df[k].RS_Ratio >= ranking_df[l].RS_Ratio

C5_Witness ==
    /\ pc = "done"
    /\ ranking_df # latest_data
    /\ Cardinality({ranking_df[k].Quadrant : k \in 1..Len(ranking_df)}) = 4
    /\ \E k \in 1..(Len(ranking_df) - 1) :
          /\ ranking_df[k].Quadrant = ranking_df[k + 1].Quadrant
          /\ IsNum(ranking_df[k + 1].RS_Ratio)
          /\ ranking_df[k].RS_Ratio > ranking_df[k + 1].RS_Ratio

\* the columns whose fetch gave a usable series
Available == {c \in DOMAIN fetched : fetched[c].usable}

IndexSet(tb) == {tb.index[t] : t \in 1..Len(tb.index)}

\* C8: after the first row drop the timestamps are those every available
\* series has; after resampling and the second row drop every row has a value
\* in the benchmark column and in the column of every included sector.
C8_AlignedTable ==
    /\ pc = "timeframe" =>
          /\ ColSet(prices) = Available
          /\ IndexSet(prices) = {d \in 1..ndays : \A c \in Available : d \in fetched[c].days}
    /\ pc = "rrg" =>
          /\ ColSet(prices) = Available
          /\ "Benchmark" \in ColSet(prices)
          /\ \A c \in ColSet(prices) :
                /\ Len(prices.data[c]) = Len(prices.index)
                /\ \A t \in 1..Len(prices.index) : IsNum(prices.data[c][t])

C8_Witness ==
    /\ pc = "rrg"
    /\ rrg_timeframe = "Weekly"
    /\ ndays = LongDays
    /\ fetched["Benchmark"].days # TradingDays(ndays)
    /\ Len(prices.index) >= 2
    /\ \E t \in 1..(Len(prices.index) - 1) : prices.index[t + 1] - prices.index[t] > 7

\* C9: RS-Ratio is missing before the 14th period and RS-Momentum before the
\* 27th; from the 27th on both are defined when the rolling means they are
\* divided by are not zero.  (The tables are assigned once, so the state right
\* after the calculation decides it.)
C9_WarmUp ==
    (pc = "daily_loop" /\ i = 1) =>
        \A s \in SectorSet :
            LET n == Len(rs_ratio[s])
                rs_mean == RollingMean(Rs(prices)[s], 14)
                ratio_mean == RollingMean(rs_ratio[s], 14)
            IN  \A t \in 1..n :
                  /\ t < 14 => IsNaN(rs_ratio[s][t])
                  /\ t < 27 => IsNaN(rs_momentum[s][t])
                  /\ (/\ t >= 27
                      /\ \A u \in (t - 13)..t : rs_mean[u] # 0
                      /\ ratio_mean[t] # 0)
                        => ~IsNaN(rs_ratio[s][t]) /\ ~IsNaN(rs_momentum[s][t])

C9_Witness ==
    /\ pc = "daily_loop" /\ i = 1
    /\ \E s \in SectorSet :
          /\ Len(rs_ratio[s]) >= 28
          /\ IsNaN(rs_ratio[s][13]) /\ IsNum(rs_ratio[s][14])
          /\ IsNaN(rs_momentum[s][26]) /\ IsNum(rs_momentum[s][27])
          /\ IsNum(rs_momentum[s][28])

====
